---------------------------- MODULE Spec2Model ----------------------------
(***************************************************************************)
(* RoleForge API: the authentication subsystem.                            *)
(*                                                                         *)
(*   src/app/core/security.py          password hashing, token codec,      *)
(*                                     permission table                    *)
(*   src/app/api/v1/endpoints/auth.py  register / login / refresh / me /   *)
(*                                     update / change-password / logout   *)
(*   src/app/main.py                   application-level exception         *)
(*                                     handlers                            *)
(*   src/app/core/config.py            token lifetimes                     *)
(*                                                                         *)
(* Every request handler is a coroutine: each `await` of a user-store call *)
(* is a point where other requests (and the store's other clients) may     *)
(* run, so a handler is one action per awaited store call.  The code       *)
(* between two awaits is synchronous and is part of the action of the      *)
(* await it follows.                                                       *)
(*                                                                         *)
(* AuthService and UserService (app/services) and the user store behind    *)
(* them are not part of the sources; they are modelled from the            *)
(* specification's sections 4.4 and 6.                                     *)
(***************************************************************************)
EXTENDS Integers, FiniteSets, Sequences, TLC

(***************************************************************************)
(* Bounds of the model.                                                    *)
(***************************************************************************)
\* number of events from outside in one behaviour: requests sent, advances
\* of the clock, changes of the store by its other clients
MaxEvents == 2
\* number of user ids the store hands out in one behaviour
MaxUsers == 2
\* number of requests that may be in flight at the same time
MaxSlots == 2

(***************************************************************************)
(* Program constants.                                                      *)
(***************************************************************************)
\* config.py: ACCESS_TOKEN_EXPIRE_MINUTES: int = Field(default=30, ...)
ACCESS_TOKEN_EXPIRE_MINUTES == 30
\* config.py: REFRESH_TOKEN_EXPIRE_DAYS: int = Field(default=7, ...)
REFRESH_TOKEN_EXPIRE_DAYS == 7
\* timedelta(minutes=...): a minute in seconds, the unit of a token's exp
SecondsPerMinute == 60
\* timedelta(days=...): a day in seconds
SecondsPerDay == 86400

\* config.py: SECRET_KEY, the process-wide signing key; OtherKey is any
\* key that is not the process's
SECRET_KEY == "server-key"
OtherKey == "other-key"

Emails == {"a@x", "b@x"}
Usernames == {"ann", "bob"}
Passwords == {"pw1", "pw2"}
Salts == {"s1"}
Roles == {"admin", "gm", "user", "guest"}
Slots == 1..MaxSlots

VARIABLES
    store,      \* the user store: a set of user records; a user's id is an
                \* opaque string of the store, named here by its ordinal
    nextId,     \* the id the store gives to the next inserted user
    now,        \* the clock (datetime.utcnow()), in seconds
    issued,     \* the tokens the server has returned, each with its maker
    events,     \* how many events from outside have happened
    req         \* the requests in flight or answered, one per slot

vars == <<store, nextId, now, issued, events, req>>

(***************************************************************************)
(* Credential hasher (security.py).  A bcrypt hash string embeds its salt; *)
(* verification recomputes the digest of the candidate password with that  *)
(* salt.  The salt is random per call: the caller draws it from Salts.     *)
(***************************************************************************)
bcrypt(salt, password) == <<"bcrypt", salt, password>>

get_password_hash(password, salt) ==
    [salt |-> salt, digest |-> bcrypt(salt, password)]

verify_password(plain_password, hashed_password) ==
    bcrypt(hashed_password.salt, plain_password) = hashed_password.digest

(***************************************************************************)
(* Token codec (security.py).  A token is its claim set (payload) and an   *)
(* HS256 signature over that claim set under a key.  A claim set is a      *)
(* record whose fields are the claims present; an optional argument is the *)
(* empty set (None) or a singleton.                                        *)
(***************************************************************************)
HS256(payload, key) == [key |-> key, over |-> payload]

jwt_encode(payload, key) == [payload |-> payload, sig |-> HS256(payload, key)]

Get(payload, claim, default) ==
    IF claim \in DOMAIN payload THEN payload[claim] ELSE default

Merge(f, g) ==
    [k \in (DOMAIN f) \cup (DOMAIN g) |-> IF k \in DOMAIN g THEN g[k] ELSE f[k]]

AccessTTL == ACCESS_TOKEN_EXPIRE_MINUTES * SecondsPerMinute
RefreshTTL == REFRESH_TOKEN_EXPIRE_DAYS * SecondsPerDay

\* create_access_token that encodes the subject only
create_access_token_sub_only(data, expires_delta) ==
    LET expire == IF expires_delta # {} /\ expires_delta # {0}
                  THEN now + (CHOOSE d \in expires_delta : TRUE)
                  ELSE now + AccessTTL
    IN  jwt_encode([sub |-> data.sub, exp |-> expire, type |-> "access"],
                   SECRET_KEY)

\* `if expires_delta:` is false for None and for a zero timedelta
create_access_token(data, expires_delta) ==
    LET expire == IF expires_delta # {} /\ expires_delta # {0}
                  THEN now + (CHOOSE d \in expires_delta : TRUE)
                  ELSE now + AccessTTL
    IN  jwt_encode(Merge(data, [exp |-> expire, type |-> "access"]), SECRET_KEY)

create_refresh_token(data) ==
    jwt_encode(Merge(data, [exp |-> now + RefreshTTL, type |-> "refresh"]),
               SECRET_KEY)

\* jwt_decode with a minute of leeway on exp
jwt_decode_leeway(token, key) ==
    IF token.sig # HS256(token.payload, key)
    THEN [ok |-> FALSE,
          error |-> "Token validation failed: Signature verification failed."]
    ELSE IF "exp" \in DOMAIN token.payload
            /\ token.payload.exp + SecondsPerMinute < now
    THEN [ok |-> FALSE,
          error |-> "Token validation failed: Signature has expired."]
    ELSE [ok |-> TRUE, payload |-> token.payload]

\* jwt_decode that accepts a well-formed signature under any key
jwt_decode_any_key(token, key) ==
    IF token.sig.over # token.payload
    THEN [ok |-> FALSE,
          error |-> "Token validation failed: Signature verification failed."]
    ELSE IF "exp" \in DOMAIN token.payload /\ token.payload.exp < now
    THEN [ok |-> FALSE,
          error |-> "Token validation failed: Signature has expired."]
    ELSE [ok |-> TRUE, payload |-> token.payload]

\* jose.jwt.decode: the signature must be the key's over the payload, and
\* the exp claim must not be earlier than the clock
jwt_decode(token, key) ==
    IF token.sig # HS256(token.payload, key)
    THEN [ok |-> FALSE,
          error |-> "Token validation failed: Signature verification failed."]
    ELSE IF "exp" \in DOMAIN token.payload /\ token.payload.exp < now
    THEN [ok |-> FALSE,
          error |-> "Token validation failed: Signature has expired."]
    ELSE [ok |-> TRUE, payload |-> token.payload]

\* verify_token without its check of the type claim
verify_token_untyped(token, token_type) ==
    LET dec == jwt_decode(token, SECRET_KEY) IN
    IF ~dec.ok
    THEN [ok |-> FALSE, exc |-> "AuthenticationException", detail |-> dec.error]
    ELSE IF "sub" \notin DOMAIN dec.payload
    THEN [ok |-> FALSE, exc |-> "AuthenticationException",
          detail |-> "Invalid token payload"]
    ELSE [ok |-> TRUE,
          data |-> [user_id |-> dec.payload.sub,
                    email |-> Get(dec.payload, "email", ""),
                    role |-> Get(dec.payload, "role", "user")]]

\* verify_token with a blacklist: a token a logout was answered for is
\* rejected from then on
verify_token_revoking(token, token_type) ==
    LET dec == jwt_decode(token, SECRET_KEY) IN
    IF ~dec.ok
    THEN [ok |-> FALSE, exc |-> "AuthenticationException", detail |-> dec.error]
    ELSE IF \E r \in DOMAIN req : /\ req[r].op = "logout"
                                  /\ req[r].status = 200
                                  /\ token \in req[r].credentials
    THEN [ok |-> FALSE, exc |-> "AuthenticationException",
          detail |-> "Token revoked"]
    ELSE IF Get(dec.payload, "type", "") # token_type
    THEN [ok |-> FALSE, exc |-> "AuthenticationException",
          detail |-> "Invalid token type"]
    ELSE IF "sub" \notin DOMAIN dec.payload
    THEN [ok |-> FALSE, exc |-> "AuthenticationException",
          detail |-> "Invalid token payload"]
    ELSE [ok |-> TRUE,
          data |-> [user_id |-> dec.payload.sub,
                    email |-> Get(dec.payload, "email", ""),
                    role |-> Get(dec.payload, "role", "user")]]

\* The result is [ok |-> TRUE, data |-> TokenData] or the
\* AuthenticationException raised
verify_token(token, token_type) ==
    LET dec == jwt_decode(token, SECRET_KEY) IN
    IF ~dec.ok
    THEN [ok |-> FALSE, exc |-> "AuthenticationException", detail |-> dec.error]
    ELSE IF Get(dec.payload, "type", "") # token_type
    THEN [ok |-> FALSE, exc |-> "AuthenticationException",
          detail |-> "Invalid token type"]
    ELSE IF "sub" \notin DOMAIN dec.payload
    THEN [ok |-> FALSE, exc |-> "AuthenticationException",
          detail |-> "Invalid token payload"]
    ELSE [ok |-> TRUE,
          data |-> [user_id |-> dec.payload.sub,
                    email |-> Get(dec.payload, "email", ""),
                    role |-> Get(dec.payload, "role", "user")]]

(***************************************************************************)
(* Permission table (security.py).  The table is a literal built inside    *)
(* each call; a list is a sequence.                                        *)
(***************************************************************************)
role_permissions ==
    [admin |-> <<"read", "write", "delete", "admin">>,
     gm |-> <<"read", "write", "gm">>,
     user |-> <<"read", "write">>,
     guest |-> <<"read">>]

\* check_permissions with any() in the place of all()
check_permissions_any(user_role, required_permissions) ==
    LET user_permissions == IF user_role \in DOMAIN role_permissions
                            THEN role_permissions[user_role]
                            ELSE <<>>
    IN  \E i \in 1..Len(required_permissions) :
            \E j \in 1..Len(user_permissions) :
                user_permissions[j] = required_permissions[i]

\* role_permissions.get(user_role, []); all(permission in user_permissions
\* for permission in required_permissions)
check_permissions(user_role, required_permissions) ==
    LET user_permissions == IF user_role \in DOMAIN role_permissions
                            THEN role_permissions[user_role]
                            ELSE <<>>
    IN  \A i \in 1..Len(required_permissions) :
            \E j \in 1..Len(user_permissions) :
                user_permissions[j] = required_permissions[i]

(***************************************************************************)
(* The user store and the services over it (specification, sections 4.4    *)
(* and 6).  A lookup returns an optional user: the empty set or a          *)
(* singleton.  The store keeps email and username unique: an insert or an  *)
(* update that would break that is rejected, and the service surfaces the  *)
(* rejection as a ConflictException.                                       *)
(***************************************************************************)
get_user_by_email(email) == {u \in store : u.email = email}

get_user_by_username(username) == {u \in store : u.username = username}

get_user_by_id(id) == {u \in store : u.id = id}

The(opt) == CHOOSE x \in opt : TRUE

create_user(user_data, salt) ==
    IF get_user_by_email(user_data.email) # {}
       \/ get_user_by_username(user_data.username) # {}
    THEN [ok |-> FALSE, exc |-> "ConflictException",
          detail |-> "User already exists"]
    ELSE [ok |-> TRUE,
          user |-> [id |-> nextId,
                    email |-> user_data.email,
                    username |-> user_data.username,
                    password_hash |-> get_password_hash(user_data.password, salt),
                    role |-> "user"]]

authenticate_user(email, password) ==
    {u \in get_user_by_email(email) : verify_password(password, u.password_hash)}

update_password(id, new_password, salt) ==
    {IF u.id = id
     THEN [u EXCEPT !.password_hash = get_password_hash(new_password, salt)]
     ELSE u : u \in store}

\* user_update.username is optional; the other profile fields do not take
\* part in any check
update_user(id, user_update) ==
    IF get_user_by_id(id) = {}
    THEN [ok |-> FALSE, exc |-> "NotFoundException", detail |-> "User not found"]
    ELSE IF user_update # {}
            /\ \E u \in store : u.id # id /\ u.username = The(user_update)
    THEN [ok |-> FALSE, exc |-> "ConflictException",
          detail |-> "User already exists"]
    ELSE [ok |-> TRUE,
          store |-> {IF u.id = id /\ user_update # {}
                     THEN [u EXCEPT !.username = The(user_update)]
                     ELSE u : u \in store}]

(***************************************************************************)
(* Exceptions to responses.  main.py registers application-level handlers; *)
(* an exception no handler catches is the framework's 500.                 *)
(***************************************************************************)
app_exception_handler(exc) ==
    CASE exc = "ValidationException" -> 400
      [] exc = "AuthenticationException" -> 401
      [] exc = "AuthorizationException" -> 403
      [] exc = "NotFoundException" -> 404
      [] exc = "ConflictException" -> 409
      [] OTHER -> 500

\* the handlers without their `except ConflictException` clauses, and no
\* application-level handler for it either
conflict_except_uncaught(exc) ==
    CASE exc = "ValidationException" -> 400
      [] OTHER -> 500

\* register, update_current_user_profile:
\*   except ConflictException -> 409, except ValidationException -> 400
conflict_except(exc) ==
    CASE exc = "ConflictException" -> 409
      [] exc = "ValidationException" -> 400
      [] OTHER -> app_exception_handler(exc)

\* login, refresh_token, change_password: except AuthenticationException -> 401
auth_except(exc) ==
    CASE exc = "AuthenticationException" -> 401
      [] OTHER -> app_exception_handler(exc)

(***************************************************************************)
(* Requests.  A slot holds one request: its operation, its inputs, where   *)
(* its handler stands (pc), the user the bearer dependency resolved, and   *)
(* the response once the handler has ended (pc = "done").                  *)
(***************************************************************************)
NoRequest ==
    [op |-> "none", pc |-> "idle",
     email |-> "", username |-> "", password |-> "", new_password |-> "",
     credentials |-> {}, user_update |-> {}, user |-> {},
     status |-> 0, detail |-> "", tokens |-> {}]

Response(status, detail, tokens) ==
    [status |-> status, detail |-> detail, tokens |-> tokens]

Respond(q, resp) ==
    [q EXCEPT !.pc = "done", !.status = resp.status, !.detail = resp.detail,
              !.tokens = resp.tokens]

Answer(q, status, detail) == Respond(q, Response(status, detail, {}))

\* A response stays in its slot until the next event from outside: by then
\* the client has it
Delivered == [s \in Slots |-> IF req[s].pc = "done" THEN NoRequest ELSE req[s]]

\* A new request takes the first slot that holds no request in flight
Free(r) ==
    /\ events < MaxEvents
    /\ Delivered[r].pc = "idle"
    /\ \A s \in Slots : s < r => Delivered[s].pc # "idle"

InFlight(op) == {s \in Slots : req[s].op = op /\ req[s].pc # "done"}

\* The tokens of a response, each with the function that made it
Issue(tokens) ==
    UNION {{[made_by |-> "create_access_token", token |-> t.access_token],
            [made_by |-> "create_refresh_token", token |-> t.refresh_token]}
           : t \in tokens}

\* register, login: the Token response built from the user record
token_response(user) ==
    [access_token |->
         create_access_token(
             [sub |-> user.id, email |-> user.email, role |-> user.role], {}),
     refresh_token |->
         create_refresh_token([sub |-> user.id, email |-> user.email]),
     expires_in |-> ACCESS_TOKEN_EXPIRE_MINUTES * 60]

\* What a client can present as a token: one the server returned, one
\* signed with a key of the client's own, or a returned one with its expiry
\* rewritten and its signature kept
Forged ==
    jwt_encode([sub |-> 1, email |-> "a@x", role |-> "admin",
                exp |-> now + RefreshTTL, type |-> "access"], OtherKey)

Tampered(t) ==
    [payload |-> [t.payload EXCEPT !.exp = @ + RefreshTTL], sig |-> t.sig]

Presentable ==
    {i.token : i \in issued} \cup {Forged}
    \cup {Tampered(i.token) : i \in issued}

(***************************************************************************)
(* The bearer dependency (auth.py).  HTTPBearer() answers a request        *)
(* without an Authorization header itself; which status it uses depends on *)
(* the framework's version: 403 before FastAPI 0.122, 401 since.           *)
(***************************************************************************)
HTTPBearerMissing == {401, 403}

get_current_user(token) ==
    LET v == verify_token(token, "access") IN
    IF ~v.ok \/ get_user_by_id(v.data.user_id) = {}
    THEN [ok |-> FALSE, status |-> 401,
          detail |-> "Could not validate credentials"]
    ELSE [ok |-> TRUE, user |-> The(get_user_by_id(v.data.user_id))]

\* The request after Depends(security) and Depends(get_current_user)
Depends(q, missing) ==
    IF q.credentials = {}
    THEN Answer(q, missing, "Not authenticated")
    ELSE LET cu == get_current_user(The(q.credentials)) IN
         IF cu.ok THEN [q EXCEPT !.user = {cu.user}]
         ELSE Answer(q, cu.status, cu.detail)

(***************************************************************************)
(* POST /auth/register                                                     *)
(***************************************************************************)
\* the pre-checks skipped
is_existing_never(user) == FALSE

\* `if existing_user:`, `if existing_username:`
is_existing(user) == user # {}

RegisterStart(r, user_data) ==
    /\ Free(r)
    /\ nextId + Cardinality(InFlight("register")) <= MaxUsers
    /\ LET q == [NoRequest EXCEPT !.op = "register",
                                  !.email = user_data.email,
                                  !.username = user_data.username,
                                  !.password = user_data.password]
       IN  req' = [Delivered EXCEPT ![r] =
                IF is_existing(get_user_by_email(user_data.email))
                THEN Answer(q, conflict_except("ConflictException"),
                            "User with this email already exists")
                ELSE [q EXCEPT !.pc = "check_username"]]
    /\ events' = events + 1
    /\ UNCHANGED <<store, nextId, now, issued>>

RegisterCheckUsername(r) ==
    /\ req[r].op = "register" /\ req[r].pc = "check_username"
    /\ req' = [req EXCEPT ![r] =
                IF is_existing(get_user_by_username(req[r].username))
                THEN Answer(@, conflict_except("ConflictException"),
                            "Username already taken")
                ELSE [@ EXCEPT !.pc = "create"]]
    /\ UNCHANGED <<store, nextId, now, issued, events>>

RegisterCreate(r, salt) ==
    /\ req[r].op = "register" /\ req[r].pc = "create"
    /\ LET res == create_user(req[r], salt) IN
       IF res.ok
       THEN LET token == {token_response(res.user)} IN
            /\ store' = store \cup {res.user}
            /\ nextId' = nextId + 1
            /\ issued' = issued \cup Issue(token)
            /\ req' = [req EXCEPT ![r] = Respond(@, Response(201, "", token))]
       ELSE /\ req' = [req EXCEPT ![r] =
                         Answer(@, conflict_except(res.exc), res.detail)]
            /\ UNCHANGED <<store, nextId, issued>>
    /\ UNCHANGED <<now, events>>

(***************************************************************************)
(* POST /auth/login: one store call (authenticate_user), then the          *)
(* response.                                                               *)
(***************************************************************************)
\* login telling an unknown email from a wrong password
login_not_found(email, password) ==
    LET user == authenticate_user(email, password) IN
    IF get_user_by_email(email) = {}
    THEN Response(app_exception_handler("NotFoundException"), "User not found", {})
    ELSE IF user = {}
    THEN Response(auth_except("AuthenticationException"),
                  "Invalid email or password", {})
    ELSE Response(200, "", {token_response(The(user))})

login(email, password) ==
    LET user == authenticate_user(email, password) IN
    IF user = {}
    THEN Response(auth_except("AuthenticationException"),
                  "Invalid email or password", {})
    ELSE Response(200, "", {token_response(The(user))})

Login(r, email, password) ==
    /\ Free(r)
    /\ LET q == [NoRequest EXCEPT !.op = "login", !.email = email,
                                  !.password = password]
           resp == login(email, password)
       IN  /\ req' = [Delivered EXCEPT ![r] = Respond(q, resp)]
           /\ issued' = issued \cup Issue(resp.tokens)
    /\ events' = events + 1
    /\ UNCHANGED <<store, nextId, now>>

(***************************************************************************)
(* POST /auth/refresh: verify_token, one store call (get_user_by_id),      *)
(* then the response.                                                      *)
(***************************************************************************)
\* the role copied from the refresh token's TokenData, not from the user
refresh_claims_stale(user, token_payload) ==
    [sub |-> user.id, email |-> user.email, role |-> token_payload.role]

\* the claims of the new access token: the user just fetched;
\* token_payload is the verified refresh token's TokenData
refresh_claims(user, token_payload) ==
    [sub |-> user.id, email |-> user.email, role |-> user.role]

\* refresh_token without `if not user: raise`: user.id of None is an
\* AttributeError, which no handler catches
refresh_token_unchecked(token) ==
    LET token_payload == verify_token(token, "refresh") IN
    IF ~token_payload.ok
    THEN Response(auth_except(token_payload.exc), token_payload.detail, {})
    ELSE LET user == get_user_by_id(token_payload.data.user_id) IN
         IF user = {}
         THEN Response(auth_except("AttributeError"), "Internal Server Error", {})
         ELSE Response(200, "",
                  {[access_token |->
                        create_access_token(
                            refresh_claims(The(user), token_payload.data), {}),
                    refresh_token |->
                        create_refresh_token(
                            [sub |-> The(user).id, email |-> The(user).email]),
                    expires_in |-> ACCESS_TOKEN_EXPIRE_MINUTES * 60]})

refresh_token(token) ==
    LET token_payload == verify_token(token, "refresh") IN
    IF ~token_payload.ok
    THEN Response(auth_except(token_payload.exc), token_payload.detail, {})
    ELSE LET user == get_user_by_id(token_payload.data.user_id) IN
         IF user = {}
         THEN Response(auth_except("AuthenticationException"),
                       "User not found", {})
         ELSE Response(200, "",
                  {[access_token |->
                        create_access_token(
                            refresh_claims(The(user), token_payload.data), {}),
                    refresh_token |->
                        create_refresh_token(
                            [sub |-> The(user).id, email |-> The(user).email]),
                    expires_in |-> ACCESS_TOKEN_EXPIRE_MINUTES * 60]})

Refresh(r, token) ==
    /\ Free(r)
    /\ LET q == [NoRequest EXCEPT !.op = "refresh", !.credentials = {token}]
           resp == refresh_token(token)
       IN  /\ req' = [Delivered EXCEPT ![r] = Respond(q, resp)]
           /\ issued' = issued \cup Issue(resp.tokens)
    /\ events' = events + 1
    /\ UNCHANGED <<store, nextId, now>>

(***************************************************************************)
(* GET /auth/me and POST /auth/logout: the dependency, then the response.  *)
(***************************************************************************)
Me(r, credentials, missing) ==
    /\ Free(r)
    /\ LET q == Depends([NoRequest EXCEPT !.op = "me",
                                          !.credentials = credentials], missing)
       IN  req' = [Delivered EXCEPT ![r] =
                     IF q.pc = "done" THEN q ELSE Answer(q, 200, "")]
    /\ events' = events + 1
    /\ UNCHANGED <<store, nextId, now, issued>>

Logout(r, credentials, missing) ==
    /\ Free(r)
    /\ LET q == Depends([NoRequest EXCEPT !.op = "logout",
                                          !.credentials = credentials], missing)
       IN  req' = [Delivered EXCEPT ![r] =
                     IF q.pc = "done" THEN q
                     ELSE Answer(q, 200, "Logged out successfully")]
    /\ events' = events + 1
    /\ UNCHANGED <<store, nextId, now, issued>>

(***************************************************************************)
(* PUT /auth/me                                                            *)
(***************************************************************************)
\* no username test at all: every update goes straight to update_user
username_changes_never(user_update, current_user) == FALSE

\* `if user_update.username and user_update.username != current_user.username`
username_changes(user_update, current_user) ==
    user_update # {} /\ The(user_update) # current_user.username

UpdateStart(r, credentials, user_update, missing) ==
    /\ Free(r)
    /\ LET q == Depends([NoRequest EXCEPT !.op = "update",
                                          !.credentials = credentials,
                                          !.user_update = user_update], missing)
       IN  req' = [Delivered EXCEPT ![r] =
                     IF q.pc = "done" THEN q
                     ELSE IF username_changes(user_update, The(q.user))
                     THEN [q EXCEPT !.pc = "check_username"]
                     ELSE [q EXCEPT !.pc = "apply"]]
    /\ events' = events + 1
    /\ UNCHANGED <<store, nextId, now, issued>>

UpdateCheckUsername(r) ==
    /\ req[r].op = "update" /\ req[r].pc = "check_username"
    /\ req' = [req EXCEPT ![r] =
                IF get_user_by_username(The(req[r].user_update)) # {}
                THEN Answer(@, conflict_except("ConflictException"),
                            "Username already taken")
                ELSE [@ EXCEPT !.pc = "apply"]]
    /\ UNCHANGED <<store, nextId, now, issued, events>>

UpdateApply(r) ==
    /\ req[r].op = "update" /\ req[r].pc = "apply"
    /\ LET res == update_user(The(req[r].user).id, req[r].user_update) IN
       IF res.ok
       THEN /\ store' = res.store
            /\ req' = [req EXCEPT ![r] = Answer(@, 200, "")]
       ELSE /\ req' = [req EXCEPT ![r] =
                         Answer(@, conflict_except(res.exc), res.detail)]
            /\ UNCHANGED store
    /\ UNCHANGED <<nextId, now, issued, events>>

(***************************************************************************)
(* POST /auth/change-password                                              *)
(***************************************************************************)
\* the current password not checked
current_password_ok_always(current_password, user) == TRUE

\* `verify_password(password_data.current_password, user.password_hash)`
current_password_ok(current_password, user) ==
    verify_password(current_password, user.password_hash)

ChangePasswordStart(r, credentials, current_password, new_password, missing) ==
    /\ Free(r)
    /\ LET q == Depends([NoRequest EXCEPT !.op = "change_password",
                                          !.credentials = credentials,
                                          !.password = current_password,
                                          !.new_password = new_password],
                        missing)
       IN  req' = [Delivered EXCEPT ![r] =
                     IF q.pc = "done" THEN q ELSE [q EXCEPT !.pc = "verify"]]
    /\ events' = events + 1
    /\ UNCHANGED <<store, nextId, now, issued>>

\* user.password_hash of a user that is gone (None) is an AttributeError,
\* which no handler catches
ChangePasswordVerify(r) ==
    /\ req[r].op = "change_password" /\ req[r].pc = "verify"
    /\ LET user == get_user_by_id(The(req[r].user).id) IN
       req' = [req EXCEPT ![r] =
                IF user = {}
                THEN Answer(@, auth_except("AttributeError"),
                            "Internal Server Error")
                ELSE IF ~current_password_ok(req[r].password, The(user))
                THEN Answer(@, auth_except("AuthenticationException"),
                            "Current password is incorrect")
                ELSE [@ EXCEPT !.pc = "update"]]
    /\ UNCHANGED <<store, nextId, now, issued, events>>

ChangePasswordUpdate(r, salt) ==
    /\ req[r].op = "change_password" /\ req[r].pc = "update"
    /\ store' = update_password(The(req[r].user).id, req[r].new_password, salt)
    /\ req' = [req EXCEPT ![r] = Answer(@, 200, "Password updated successfully")]
    /\ UNCHANGED <<nextId, now, issued, events>>

(***************************************************************************)
(* The environment: the clock, and the store's other clients (an           *)
(* administrator deleting a user or changing a role).                      *)
(***************************************************************************)
Tick(d) ==
    /\ events < MaxEvents
    /\ now' = now + d
    /\ events' = events + 1
    /\ req' = Delivered
    /\ UNCHANGED <<store, nextId, issued>>

StoreDeleteUser(id) ==
    /\ events < MaxEvents
    /\ get_user_by_id(id) # {}
    /\ store' = store \ get_user_by_id(id)
    /\ events' = events + 1
    /\ req' = Delivered
    /\ UNCHANGED <<nextId, now, issued>>

StoreSetRole(id, role) ==
    /\ events < MaxEvents
    /\ \E u \in get_user_by_id(id) : u.role # role
    /\ store' = {IF u.id = id THEN [u EXCEPT !.role = role] ELSE u : u \in store}
    /\ events' = events + 1
    /\ req' = Delivered
    /\ UNCHANGED <<nextId, now, issued>>

(***************************************************************************)
(* The specification.                                                      *)
(***************************************************************************)
UserCreate == [email : Emails, username : Usernames, password : Passwords]
UserUpdate == {{}} \cup {{n} : n \in Usernames}
Delays == {1, AccessTTL, RefreshTTL}
Ids == 1..MaxUsers

\* A request's Authorization header (absent, or a presentable token) and,
\* for an absent one, the status HTTPBearer answers with
Bearer ==
    {[credentials |-> {}, missing |-> m] : m \in HTTPBearerMissing}
    \cup {[credentials |-> {t}, missing |-> 401] : t \in Presentable}

\* The service starts with no request in flight, on a store that is empty
\* or that holds one user, registered at the instant 0, whose tokens of
\* that registration a client holds.
FirstUser ==
    [id |-> 1, email |-> "a@x", username |-> "ann",
     password_hash |-> get_password_hash("pw1", "s1"), role |-> "user"]

Init ==
    /\ now = 0
    /\ events = 0
    /\ req = [r \in Slots |-> NoRequest]
    /\ \/ /\ store = {}
          /\ nextId = 1
          /\ issued = {}
       \/ /\ store = {FirstUser}
          /\ nextId = 2
          /\ issued = Issue({token_response(FirstUser)})

Next ==
    \/ \E r \in Slots, user_data \in UserCreate : RegisterStart(r, user_data)
    \/ \E r \in Slots : RegisterCheckUsername(r)
    \/ \E r \in Slots, salt \in Salts : RegisterCreate(r, salt)
    \/ \E r \in Slots, email \in Emails, password \in Passwords :
            Login(r, email, password)
    \/ \E r \in Slots, t \in Presentable : Refresh(r, t)
    \/ \E r \in Slots, b \in Bearer : Me(r, b.credentials, b.missing)
    \/ \E r \in Slots, b \in Bearer : Logout(r, b.credentials, b.missing)
    \/ \E r \in Slots, b \in Bearer, u \in UserUpdate :
            UpdateStart(r, b.credentials, u, b.missing)
    \/ \E r \in Slots : UpdateCheckUsername(r)
    \/ \E r \in Slots : UpdateApply(r)
    \/ \E r \in Slots, b \in Bearer, cur \in Passwords, new \in Passwords :
            ChangePasswordStart(r, b.credentials, cur, new, b.missing)
    \/ \E r \in Slots : ChangePasswordVerify(r)
    \/ \E r \in Slots, salt \in Salts : ChangePasswordUpdate(r, salt)
    \/ \E d \in Delays : Tick(d)
    \/ \E id \in Ids : StoreDeleteUser(id)
    \/ \E id \in Ids, role \in Roles : StoreSetRole(id, role)

Spec == Init /\ [][Next]_vars

(***************************************************************************)
(* Vocabulary of the properties.                                           *)
(***************************************************************************)
BearerOps == {"me", "update", "change_password", "logout"}
Kinds == {"access", "refresh"}
Maker(kind) ==
    IF kind = "access" THEN "create_access_token" ELSE "create_refresh_token"

\* The step in which the request of slot r arrives
Started(r) ==
    /\ events' = events + 1
    /\ Delivered[r].pc = "idle"
    /\ req'[r].op # "none"

\* The step in which the handler of slot r leaves the place pc
Leaves(r, op, pc) ==
    /\ req[r].op = op /\ req[r].pc = pc
    /\ req'[r] # req[r]

Finished(q, op) == q.op = op /\ q.pc = "done"

InvalidSignature(t) == t.sig.key # SECRET_KEY \/ t.sig.over # t.payload
MadeAs(t, kind) == [made_by |-> Maker(kind), token |-> t] \in issued
Live(t) == ~InvalidSignature(t) /\ t.payload.exp >= now

UniqueUsers(users) ==
    \A u, v \in users :
        (u.id = v.id \/ u.email = v.email \/ u.username = v.username) => u = v

(***************************************************************************)
(* C1.  A bearer-protected request (GET /auth/me, PUT /auth/me,            *)
(* POST /auth/change-password, POST /auth/logout) whose token is absent,   *)
(* badly signed, expired or not an access token ends at once with 401 and  *)
(* writes nothing to the user store.                                       *)
(***************************************************************************)
BadToken(t) ==
    InvalidSignature(t) \/ t.payload.exp < now \/ ~MadeAs(t, "access")

Rejected401(r) ==
    /\ req'[r].pc = "done"
    /\ req'[r].status = 401
    /\ store' = store

C1_BearerRejects ==
    [][\A r \in Slots :
         (/\ Started(r)
          /\ req'[r].op \in BearerOps
          /\ \/ req'[r].credentials = {}
             \/ \E t \in req'[r].credentials : BadToken(t))
         => Rejected401(r)]_vars

\* C1, for the requests that present a token: the part the handlers decide
C1_PresentedTokenRejected ==
    [][\A r \in Slots :
         (/\ Started(r)
          /\ req'[r].op \in BearerOps
          /\ \E t \in req'[r].credentials : BadToken(t))
         => Rejected401(r)]_vars

(***************************************************************************)
(* C2.  verify_token accepts a token as kind X only if it was created as   *)
(* kind X: POST /auth/refresh answers 401 and no tokens to a token made by *)
(* create_access_token, and the bearer dependency of GET /auth/me answers  *)
(* 401 to a token made by create_refresh_token.                            *)
(***************************************************************************)
C2_KindMatches ==
    /\ \A i \in issued, k \in Kinds :
           verify_token(i.token, k).ok => i.made_by = Maker(k)
    /\ \A i \in issued :
           i.made_by = "create_access_token" =>
               /\ refresh_token(i.token).status = 401
               /\ refresh_token(i.token).tokens = {}
    /\ \A i \in issued :
           i.made_by = "create_refresh_token" =>
               LET q == Depends([NoRequest EXCEPT !.op = "me",
                                                  !.credentials = {i.token}], 401)
               IN  q.pc = "done" /\ q.status = 401

\* GET /auth/me was called with a live refresh token of an existing user
\* and answered 401
C2_Witness ==
    \E r \in Slots :
        /\ Finished(req[r], "me")
        /\ req[r].status = 401
        /\ \E t \in req[r].credentials :
               /\ MadeAs(t, "refresh")
               /\ Live(t)
               /\ get_user_by_id(t.payload.sub) # {}

(***************************************************************************)
(* C3.  A token whose exp is earlier than the clock is rejected by         *)
(* verify_token, whatever kind is expected and although its signature is   *)
(* correct; and once its exp is earlier than the clock it stays so: no     *)
(* step makes the token accepted again.                                    *)
(***************************************************************************)
Expired(t) == t.payload.exp < now

C3_ExpiredRejected ==
    [][/\ \A i \in issued' , k \in Kinds :
            Expired(i.token)' => ~(verify_token(i.token, k).ok)'
       /\ \A i \in issued : Expired(i.token) => Expired(i.token)']_vars

\* The first instant later than the exp of a correctly signed token
C3_Witness ==
    \E i \in issued :
        /\ ~InvalidSignature(i.token)
        /\ now = i.token.payload.exp + 1

(***************************************************************************)
(* C4.  Two registrations for the same email or username that both passed  *)
(* the pre-checks: the insert that finds the email or username in the      *)
(* store is answered 409 with no tokens and changes nothing; the insert    *)
(* that does not is answered 201 with a token pair; two answered           *)
(* registrations for the same email or username are never both 201; and    *)
(* the store never holds two users with the same email or username.        *)
(***************************************************************************)
Clash(a, b) == a.email = b.email \/ a.username = b.username

C4_RegisterRace ==
    [][/\ UniqueUsers(store')
       /\ \A r \in Slots :
            Leaves(r, "register", "create") =>
                IF \E u \in store : Clash(u, req[r])
                THEN /\ Finished(req'[r], "register")
                     /\ req'[r].status = 409
                     /\ req'[r].tokens = {}
                     /\ store' = store /\ issued' = issued
                ELSE /\ Finished(req'[r], "register")
                     /\ req'[r].status = 201
                     /\ req'[r].tokens # {}
                     /\ \E u \in store' \ store :
                            /\ u.email = req[r].email
                            /\ u.username = req[r].username
                     /\ Cardinality(store') = Cardinality(store) + 1
       /\ \A r, s \in Slots :
            (/\ r # s
             /\ Finished(req'[r], "register") /\ Finished(req'[s], "register")
             /\ Clash(req'[r], req'[s]))
            => ~(req'[r].status = 201 /\ req'[s].status = 201)]_vars

\* Both requests of a race for one email were answered: one 201 with
\* tokens, the other 409 by the store's rejection
C4_Witness ==
    \E r, s \in Slots :
        /\ Finished(req[r], "register") /\ Finished(req[s], "register")
        /\ req[r].email = req[s].email
        /\ req[r].status = 201 /\ req[r].tokens # {}
        /\ req[s].status = 409 /\ req[s].tokens = {}
        /\ req[s].detail = "User already exists"
        /\ Cardinality(get_user_by_email(req[r].email)) = 1

(***************************************************************************)
(* C5.  A registration that finds its email in the store is answered 409,  *)
(* email taken; one that then finds its username in the store is answered  *)
(* 409, username taken; neither creates a user nor issues tokens; and a    *)
(* user enters the store only with a registration answered 201 and a       *)
(* token pair.                                                             *)
(***************************************************************************)
NothingCreated == store' = store /\ issued' = issued /\ nextId' = nextId

C5_SequentialRegister ==
    [][/\ \A r \in Slots :
            (/\ Started(r)
             /\ req'[r].op = "register"
             /\ get_user_by_email(req'[r].email) # {})
            => /\ Finished(req'[r], "register")
               /\ req'[r].status = 409
               /\ req'[r].detail = "User with this email already exists"
               /\ req'[r].tokens = {}
               /\ NothingCreated
       /\ \A r \in Slots :
            (/\ Leaves(r, "register", "check_username")
             /\ get_user_by_username(req[r].username) # {})
            => /\ Finished(req'[r], "register")
               /\ req'[r].status = 409
               /\ req'[r].detail = "Username already taken"
               /\ req'[r].tokens = {}
               /\ NothingCreated
       /\ \A u \in store' :
            (\A v \in store : v.id # u.id) =>
                \E r \in Slots :
                    /\ Finished(req'[r], "register")
                    /\ req'[r].status = 201
                    /\ req'[r].tokens # {}
                    /\ req'[r].email = u.email
                    /\ req'[r].username = u.username]_vars

\* A second registration with the email of a registered user was answered
\* 409, email taken
C5_Witness ==
    \E r \in Slots :
        /\ Finished(req[r], "register")
        /\ req[r].status = 409
        /\ req[r].detail = "User with this email already exists"
        /\ get_user_by_email(req[r].email) # {}
        /\ get_user_by_username(req[r].username) = {}

(***************************************************************************)
(* C6.  POST /auth/login with an email no user has and POST /auth/login    *)
(* with a registered email and a wrong password get the same response:     *)
(* status 401, the same detail, no tokens.                                 *)
(***************************************************************************)
Matches(hash, password) == hash.digest = bcrypt(hash.salt, password)

UnknownEmail(email) == \A u \in store : u.email # email

WrongPassword(email, password) ==
    \E u \in store : u.email = email /\ ~Matches(u.password_hash, password)

C6_LoginIndistinguishable ==
    \A e1 \in Emails, e2 \in Emails, p1 \in Passwords, p2 \in Passwords :
        (UnknownEmail(e1) /\ WrongPassword(e2, p2)) =>
            /\ login(e1, p1) = login(e2, p2)
            /\ login(e1, p1).status = 401
            /\ login(e1, p1).tokens = {}

\* A login with a registered email and a wrong password was answered 401,
\* while another email is not registered
C6_Witness ==
    \E r \in Slots :
        /\ Finished(req[r], "login")
        /\ WrongPassword(req[r].email, req[r].password)
        /\ req[r].status = 401
        /\ \E e \in Emails : UnknownEmail(e)

(***************************************************************************)
(* C7.  POST /auth/refresh with a correctly signed, unexpired refresh      *)
(* token whose subject is no longer in the store is answered 401, issues   *)
(* no tokens and changes nothing.                                          *)
(***************************************************************************)
C7_RefreshUserGone ==
    [][\A r \in Slots :
         (/\ Started(r)
          /\ req'[r].op = "refresh"
          /\ \E t \in req'[r].credentials :
                 /\ MadeAs(t, "refresh")
                 /\ Live(t)
                 /\ get_user_by_id(t.payload.sub) = {})
         => /\ Finished(req'[r], "refresh")
            /\ req'[r].status = 401
            /\ req'[r].tokens = {}
            /\ issued' = issued
            /\ store' = store]_vars

\* A refresh with a live refresh token of a deleted user was answered
C7_Witness ==
    \E r \in Slots :
        /\ Finished(req[r], "refresh")
        /\ req[r].status = 401
        /\ \E t \in req[r].credentials :
               /\ MadeAs(t, "refresh")
               /\ Live(t)
               /\ get_user_by_id(t.payload.sub) = {}

(***************************************************************************)
(* C8.  The access token of a successful POST /auth/refresh verifies to    *)
(* the id, email and role the user has in the store at the refresh, not    *)
(* to those of the time the refresh token was issued.                      *)
(***************************************************************************)
C8_RefreshCurrentRole ==
    \A i \in issued :
        (/\ i.made_by = "create_refresh_token"
         /\ Live(i.token)
         /\ get_user_by_id(i.token.payload.sub) # {})
        => LET resp == refresh_token(i.token)
               u == The(get_user_by_id(i.token.payload.sub))
           IN  /\ resp.status = 200
               /\ resp.tokens # {}
               /\ \A tk \in resp.tokens :
                      verify_token(tk.access_token, "access") =
                          [ok |-> TRUE,
                           data |-> [user_id |-> u.id, email |-> u.email,
                                     role |-> u.role]]

\* A refresh was answered 200 for a user whose role is no longer the
\* "user" it was registered with, and the new access token carries that
\* role
C8_Witness ==
    \E r \in Slots :
        /\ Finished(req[r], "refresh")
        /\ req[r].status = 200
        /\ \E t \in req[r].credentials, tk \in req[r].tokens :
               \E u \in get_user_by_id(t.payload.sub) :
                   /\ u.role # "user"
                   /\ tk.access_token.payload.role = u.role

(***************************************************************************)
(* C9.  Token validity is stateless: while the clock stands still no step  *)
(* changes what verify_token answers for a returned token; a returned      *)
(* token is accepted as the kind it was made as until its exp, whatever    *)
(* logout, refresh, change-password or profile update it was used in; and  *)
(* POST /auth/logout changes no server-side state.                         *)
(***************************************************************************)
C9_Stateless ==
    [][/\ \A i \in issued, k \in Kinds :
            now' = now => verify_token(i.token, k)' = verify_token(i.token, k)
       /\ \A i \in issued', k \in Kinds :
            (i.made_by = Maker(k) /\ i.token.payload.exp >= now')
            => (verify_token(i.token, k).ok)'
       /\ \A r \in Slots :
            (Started(r) /\ req'[r].op = "logout")
            => UNCHANGED <<store, nextId, now, issued>>]_vars

\* A logout was answered 200, after a refresh or a second login, and the
\* access token it was called with is still accepted
C9_Witness ==
    \E r \in Slots :
        /\ Finished(req[r], "logout")
        /\ req[r].status = 200
        /\ \E t \in req[r].credentials : verify_token(t, "access").ok
        /\ Cardinality(issued) >= 4

(***************************************************************************)
(* C10.  POST /auth/change-password: a current_password that does not      *)
(* verify against the hash stored for the user ends the request with 401   *)
(* and leaves the store as it is, so every password authenticates exactly  *)
(* as before; the handler goes on to the update only after the current     *)
(* password verified; and a stored hash changes only by that update, to    *)
(* the hash of the new password.                                           *)
(***************************************************************************)
C10_ChangePassword ==
    [][/\ \A r \in Slots :
            (/\ Leaves(r, "change_password", "verify")
             /\ \E u \in store : /\ u.id = The(req[r].user).id
                                 /\ ~Matches(u.password_hash, req[r].password))
            => /\ Finished(req'[r], "change_password")
               /\ req'[r].status = 401
               /\ store' = store
               /\ \A e \in Emails, p \in Passwords :
                      authenticate_user(e, p)' = authenticate_user(e, p)
       /\ \A r \in Slots :
            (req'[r].op = "change_password" /\ req'[r].pc = "update"
             /\ req[r].pc # "update")
            => \E u \in store : /\ u.id = The(req[r].user).id
                                /\ Matches(u.password_hash, req[r].password)
       /\ \A u \in store, v \in store' :
            (u.id = v.id /\ u.password_hash # v.password_hash)
            => \E r \in Slots :
                   /\ Leaves(r, "change_password", "update")
                   /\ The(req[r].user).id = u.id
                   /\ req'[r].status = 200
                   /\ Matches(v.password_hash, req[r].new_password)]_vars

\* A change-password with a wrong current password was answered 401: the
\* user's password still authenticates and the new one does not
C10_Witness ==
    \E r \in Slots :
        /\ Finished(req[r], "change_password")
        /\ req[r].status = 401
        /\ req[r].detail = "Current password is incorrect"
        /\ \E u \in req[r].user, v \in store, p \in Passwords :
               /\ v.id = u.id
               /\ p # req[r].password
               /\ authenticate_user(v.email, p) = {v}
               /\ authenticate_user(v.email, req[r].new_password) = {}

(***************************************************************************)
(* C11.  PUT /auth/me with a username other than the caller's own goes     *)
(* through the username lookup before update_user is called; a username    *)
(* that belongs to another user ends the request with 409, at the lookup   *)
(* or at the update, and changes no user record; a username of a user      *)
(* changes only in the update step of a request answered 200, to a         *)
(* username no other user has; and no two users ever share a username.     *)
(***************************************************************************)
TakenByOther(q) ==
    \E n \in q.user_update, u \in store :
        u.username = n /\ u.id # The(q.user).id

C11_UpdateUsernameUnique ==
    [][/\ \A u, v \in store' : u.username = v.username => u = v
       /\ \A r \in Slots :
            (/\ req'[r].op = "update" /\ req'[r].pc = "apply"
             /\ req[r].pc # "apply"
             /\ \E n \in req'[r].user_update :
                    n # The(req'[r].user).username)
            => /\ Leaves(r, "update", "check_username")
               /\ get_user_by_username(The(req[r].user_update)) = {}
       /\ \A r \in Slots :
            (Leaves(r, "update", "check_username") /\ TakenByOther(req[r]))
            => /\ Finished(req'[r], "update")
               /\ req'[r].status = 409
               /\ store' = store
       /\ \A r \in Slots :
            (Leaves(r, "update", "apply") /\ TakenByOther(req[r]))
            => /\ Finished(req'[r], "update")
               /\ req'[r].status # 200
               /\ get_user_by_id(The(req[r].user).id) # {}
                      => req'[r].status = 409
               /\ store' = store
       /\ \A u \in store, v \in store' :
            (u.id = v.id /\ u.username # v.username)
            => /\ \E r \in Slots :
                      /\ Leaves(r, "update", "apply")
                      /\ The(req[r].user).id = u.id
                      /\ req[r].user_update = {v.username}
                      /\ req'[r].status = 200
               /\ \A w \in store : w.username # v.username]_vars

\* An update to a username another user has was answered 409 at the
\* lookup, and the caller's record is as it was
C11_Witness ==
    \E r \in Slots :
        /\ Finished(req[r], "update")
        /\ req[r].status = 409
        /\ req[r].detail = "Username already taken"
        /\ TakenByOther(req[r])
        /\ \E u \in store : /\ u.id = The(req[r].user).id
                            /\ u.username = The(req[r].user).username

(***************************************************************************)
(* C12.  A token signed with a key other than SECRET_KEY is rejected by    *)
(* verify_token with an AuthenticationException, whichever kind is         *)
(* expected and whatever the token's subject, email, role, kind and        *)
(* expiry: the claim set of a returned token signed again, or any other    *)
(* claim set, expired or not.                                              *)
(***************************************************************************)
ForgedClaims ==
    {i.token.payload : i \in issued}
    \cup [sub : Ids, email : Emails, role : Roles, type : Kinds,
          exp : {now - 1, now, now + AccessTTL}]

C12_OtherKeyRejected ==
    \A payload \in ForgedClaims, k \in Kinds :
        LET v == verify_token(jwt_encode(payload, OtherKey), k)
        IN  ~v.ok /\ v.exc = "AuthenticationException"

\* GET /auth/me with an unexpired access token for an existing user, signed
\* with another key, was answered 401
C12_Witness ==
    \E r \in Slots :
        /\ Finished(req[r], "me")
        /\ req[r].status = 401
        /\ \E t \in req[r].credentials :
               /\ t.sig = HS256(t.payload, OtherKey)
               /\ t.payload.type = "access"
               /\ t.payload.exp >= now
               /\ get_user_by_id(t.payload.sub) # {}

(***************************************************************************)
(* C13.  Round trip: for every claim set of a subject id, an email and a   *)
(* role, and every lifetime, verify_token(create_access_token(claims),     *)
(* "access") succeeds and returns the claims' user_id, email and role; a   *)
(* returned access token verifies to the claims it carries until its exp;  *)
(* the access token of a registration answered 201 verifies to the id,     *)
(* email and role of the user registered; and GET /auth/me with an         *)
(* unexpired access token the server returned, whose user is in the store, *)
(* is answered 200 with the user of the token's subject id.                *)
(***************************************************************************)
ValidClaims == [sub : Ids, email : Emails, role : Roles]
Lifetimes == {{}, {1}, {RefreshTTL}}

RoundTrip ==
    /\ \A claims \in ValidClaims, expires_delta \in Lifetimes :
           verify_token(create_access_token(claims, expires_delta), "access")
               = [ok |-> TRUE,
                  data |-> [user_id |-> claims.sub, email |-> claims.email,
                            role |-> claims.role]]
    /\ \A i \in issued :
           (i.made_by = "create_access_token" /\ i.token.payload.exp >= now)
           => verify_token(i.token, "access")
                  = [ok |-> TRUE,
                     data |-> [user_id |-> i.token.payload.sub,
                               email |-> i.token.payload.email,
                               role |-> i.token.payload.role]]

C13_RoundTrip ==
    /\ RoundTrip
    /\ \A r \in Slots :
           (Finished(req[r], "register") /\ req[r].status = 201)
           => \E u \in get_user_by_email(req[r].email) :
                  \A tk \in req[r].tokens :
                      verify_token(tk.access_token, "access")
                          = [ok |-> TRUE,
                             data |-> [user_id |-> u.id, email |-> u.email,
                                       role |-> u.role]]
    /\ \A r \in Slots :
           (/\ Finished(req[r], "me")
            /\ \E t \in req[r].credentials :
                   /\ MadeAs(t, "access")
                   /\ Live(t)
                   /\ get_user_by_id(t.payload.sub) # {})
           => /\ req[r].status = 200
              /\ req[r].user # {}
              /\ \A t \in req[r].credentials, u \in req[r].user :
                     u.id = t.payload.sub

\* GET /auth/me with the access token of a registration made in this
\* behaviour was answered 200 with that user
C13_Witness ==
    \E r \in Slots :
        /\ Finished(req[r], "me")
        /\ req[r].status = 200
        /\ \E t \in req[r].credentials, u \in req[r].user :
               /\ MadeAs(t, "access")
               /\ u.id = t.payload.sub
               /\ u.email = t.payload.email
               /\ u # FirstUser

(***************************************************************************)
(* C14.  create_access_token encodes exp = now + ttl for every ttl the     *)
(* caller supplies, a ttl of zero included, and exp = now + the configured *)
(* default lifetime only when no ttl is supplied.                          *)
(***************************************************************************)
SuppliedTTLs == {0, 1, SecondsPerMinute, AccessTTL + 1}

C14_TtlEncoded ==
    \A claims \in ValidClaims :
        /\ \A ttl \in SuppliedTTLs :
               create_access_token(claims, {ttl}).payload.exp = now + ttl
        /\ create_access_token(claims, {}).payload.exp = now + AccessTTL

\* C14, for the lifetimes other than zero
C14_NonZeroTtlEncoded ==
    \A claims \in ValidClaims :
        /\ \A ttl \in SuppliedTTLs \ {0} :
               create_access_token(claims, {ttl}).payload.exp = now + ttl
        /\ create_access_token(claims, {}).payload.exp = now + AccessTTL

(***************************************************************************)
(* C15.  check_permissions(role, required) is true exactly when every      *)
(* element of required is in the permission set of role: admin has read,   *)
(* write, delete, admin; gm has read, write, gm; user has read, write;     *)
(* guest has read; any other role has none.  So an empty requirement       *)
(* passes for every role, and a role that is not in the table passes only  *)
(* the empty requirement.                                                  *)
(***************************************************************************)
PermissionSet(role) ==
    CASE role = "admin" -> {"read", "write", "delete", "admin"}
      [] role = "gm" -> {"read", "write", "gm"}
      [] role = "user" -> {"read", "write"}
      [] role = "guest" -> {"read"}
      [] OTHER -> {}

RoleInputs == Roles \cup {"unknown_role"}
PermissionInputs == {"read", "write", "delete", "admin", "gm", "publish"}
Requirements ==
    {<<>>} \cup {<<p>> : p \in PermissionInputs}
    \cup {<<p, q>> : p \in PermissionInputs, q \in PermissionInputs}

C15_CheckPermissions ==
    /\ \A role \in RoleInputs, required \in Requirements :
           check_permissions(role, required)
               <=> \A i \in 1..Len(required) : required[i] \in PermissionSet(role)
    /\ \A role \in RoleInputs : check_permissions(role, <<>>)
    /\ \A required \in Requirements :
           check_permissions("unknown_role", required) <=> required = <<>>
    /\ \A u \in store, required \in Requirements :
           check_permissions(u.role, required)
               <=> \A i \in 1..Len(required) : required[i] \in PermissionSet(u.role)

\* The store holds a game master: check_permissions lets that role read,
\* write and use gm, and refuses it delete
C15_Witness ==
    \E u \in store :
        /\ u.role = "gm"
        /\ check_permissions(u.role, <<"read", "gm">>)
        /\ check_permissions(u.role, <<>>)
        /\ ~check_permissions(u.role, <<"write", "delete">>)
        /\ ~check_permissions("unknown_role", <<"read">>)

(***************************************************************************)
(* C16.  POST /auth/change-password whose bearer check passed ends either  *)
(* with 200 and the user's stored hash that of the new password, or with   *)
(* 401 and the store unchanged; never with another status, whatever the    *)
(* store's other clients do between the handler's store calls.             *)
(***************************************************************************)
C16_ChangePasswordOutcomes ==
    [][\A r \in Slots :
         (/\ req[r].op = "change_password"
          /\ req[r].pc \in {"verify", "update"}
          /\ req'[r].pc = "done")
         => \/ /\ req'[r].status = 200
               /\ \A u \in store' :
                      u.id = The(req[r].user).id
                          => Matches(u.password_hash, req[r].new_password)
            \/ /\ req'[r].status = 401
               /\ store' = store]_vars

\* C16, for the requests whose user is in the store when the handler
\* fetches it again
C16_OutcomesWhileUserExists ==
    [][\A r \in Slots :
         (/\ req[r].op = "change_password"
          /\ req[r].pc \in {"verify", "update"}
          /\ req'[r].pc = "done"
          /\ get_user_by_id(The(req[r].user).id) # {})
         => \/ /\ req'[r].status = 200
               /\ \E u \in store' :
                      /\ u.id = The(req[r].user).id
                      /\ Matches(u.password_hash, req[r].new_password)
            \/ /\ req'[r].status = 401
               /\ store' = store]_vars

=============================================================================
